---- MODULE Spec2Model ----
(***************************************************************************)
(* The sample transformation engine of the sidecar                          *)
(* (retrieval/transform.go): sampleBuilder.next and buildDistribution,      *)
(* driven by a caller that feeds next its own remainder until the batch is  *)
(* used up.  The series directory (seriesGetter) is an interface of the     *)
(* repository whose implementation is not part of the sources modelled      *)
(* here; it is modelled at the level of its interface: get may fail         *)
(* transiently, getResetAdjusted and updateSampleInterval answer            *)
(* nondeterministically, and every call made on it is recorded.             *)
(*                                                                         *)
(* float64 values are records [k, n]: k = "fin" with n the value in halves  *)
(* (n = 5 is 2.5), k = "nan", or k = "inf" (+Inf).  int64 is modelled with  *)
(* IntBits bits, two's complement.  The mean and the sum of squared         *)
(* deviations of a distribution are real-valued statistics that no          *)
(* property below reads; they are left out of the Distribution record.      *)
(***************************************************************************)
EXTENDS Integers, Sequences, FiniteSets, TLC

\* ------------------------------------------------------------------ bounds

\* Longest batch of samples the tailer hands to the caller.
MaxLen == 3
\* Longest batch in the specification of the caller's whole loop.
MaxLoopLen == 2
\* Width of the modelled int64.
IntBits == 16
\* A reset timestamp (ms) the directory may have anchored before the batch.
AnchorTime == 500
MaxLabels == 3
MaxFamily == 3

\* ------------------------------------------------------- program constants

metricSuffixBucket == "_bucket"
metricSuffixSum == "_sum"
metricSuffixCount == "_count"
metricSuffixTotal == "_total"

\* time.Millisecond, in nanoseconds.
Millisecond == 1000000
\* Milliseconds per second, the divisor of getTimestamp.
MillisPerSecond == 1000

\* textparse.MetricType values.
MetricTypeCounter == "counter"
MetricTypeGauge == "gauge"
MetricTypeUnknown == "unknown"
MetricTypeSummary == "summary"
MetricTypeHistogram == "histogram"

\* metric_pb.MetricDescriptor_ValueType values.
ValueTypeINT64 == "INT64"
ValueTypeDOUBLE == "DOUBLE"

\* ------------------------------------------------------------- arithmetic

\* Go's integer division and remainder truncate toward zero.
GoDiv(a, b) == IF a >= 0 THEN a \div b ELSE -((-a) \div b)
GoMod(a, b) == a - b * GoDiv(a, b)

MinInt == -(2 ^ (IntBits - 1))
MaxInt == (2 ^ (IntBits - 1)) - 1
\* Two's complement wrap-around of integer arithmetic.
WrapInt(x) == ((x - MinInt) % (2 ^ IntBits)) + MinInt

Fin(n) == [k |-> "fin", n |-> n]
NaN == [k |-> "nan", n |-> 0]
PosInf == [k |-> "inf", n |-> 0]
Zero == Fin(0)

IsNaN(f) == f.k = "nan"
IsPosInf(f) == f.k = "inf"

\* The float64 comparison a < b: false as soon as one side is NaN.
FloatLess(a, b) ==
    /\ a.k # "nan"
    /\ b.k # "nan"
    /\ a.k = "fin"
    /\ \/ b.k = "inf"
       \/ b.k = "fin" /\ a.n < b.n

\* int64(f): truncation toward zero.  Converting NaN or an infinity is
\* implementation-dependent in Go (0 on some targets, the minimum integer on
\* others): the set holds every outcome a build can produce.
ToInt64(f) ==
    IF f.k = "fin" THEN {WrapInt(GoDiv(f.n, 2))} ELSE {0, MinInt}

\* math.Round: to the nearest integer, halves away from zero.
Round(f) ==
    IF f.k # "fin" THEN f
    ELSE IF f.n >= 0 THEN Fin(2 * ((f.n + 1) \div 2))
                     ELSE Fin(-(2 * ((1 - f.n) \div 2)))

\* strconv.ParseFloat on the le values that occur: decimal numbers, "+Inf",
\* "NaN", and anything else is a syntax error.
ParseFloat(s) ==
    CASE s = "1" -> [ok |-> TRUE, f |-> Fin(2)]
      [] s = "1.0" -> [ok |-> TRUE, f |-> Fin(2)]
      [] s = "2" -> [ok |-> TRUE, f |-> Fin(4)]
      [] s = "2.5" -> [ok |-> TRUE, f |-> Fin(5)]
      [] s = "+Inf" -> [ok |-> TRUE, f |-> PosInf]
      [] s = "NaN" -> [ok |-> TRUE, f |-> NaN]
      [] OTHER -> [ok |-> FALSE, f |-> Zero]

\* strings.HasPrefix and the slice name[len(prefix):].
HasPrefix(s, prefix) ==
    /\ Len(prefix) <= Len(s)
    /\ SubSeq(s, 1, Len(prefix)) = prefix
TrimLen(s, prefix) == SubSeq(s, Len(prefix) + 1, Len(s))

\* ------------------------------------------------------------- timestamps

\* getTimestamp converts a millisecond timestamp into a protobuf timestamp.
getTimestamp(t) ==
    [Seconds |-> GoDiv(t, MillisPerSecond),
     Nanos |-> GoMod(t, MillisPerSecond) * Millisecond]

\* Order of protobuf timestamps: seconds first, then nanoseconds.
TsLeq(a, b) ==
    \/ a.Seconds < b.Seconds
    \/ a.Seconds = b.Seconds /\ a.Nanos <= b.Nanos

\* ----------------------------------------------------------------- labels

Label(name, value) == [Name |-> name, Value |-> value]

\* tsdbLabels.Labels.Get: the value of the label, "" when it is absent.
LabelsGet(lset, name) ==
    IF \E i \in 1..Len(lset) : lset[i].Name = name
    THEN lset[CHOOSE i \in 1..Len(lset) :
                 /\ lset[i].Name = name
                 /\ \A j \in 1..(i - 1) : lset[j].Name # name].Value
    ELSE ""

IgnoredLabel(l) == l.Name = "le" \/ l.Name = "__name__"

\* LabelsScan skipping le and __name__ labels of the first argument only.
RECURSIVE LabelsScanFirstOnly(_, _, _, _)
LabelsScanFirstOnly(a, b, i, j) ==
    IF ~(i <= Len(a) /\ j <= Len(b)) THEN <<i, j>>
    ELSE IF IgnoredLabel(a[i]) THEN LabelsScanFirstOnly(a, b, i + 1, j)
    ELSE IF a[i] # b[j] THEN <<0, 0>>
    ELSE LabelsScanFirstOnly(a, b, i + 1, j + 1)

\* The first loop of histogramLabelsEqual, from cursors i, j (1-based).  The
\* result is the pair of cursors where it stops, or <<0, 0>> on a mismatch.
RECURSIVE LabelsScan(_, _, _, _)
LabelsScan(a, b, i, j) ==
    IF ~(i <= Len(a) /\ j <= Len(b)) THEN <<i, j>>
    ELSE IF IgnoredLabel(a[i]) THEN LabelsScan(a, b, i + 1, j)
    ELSE IF IgnoredLabel(b[j]) THEN LabelsScan(a, b, i, j + 1)
    ELSE IF a[i] # b[j] THEN <<0, 0>>
    ELSE LabelsScan(a, b, i + 1, j + 1)

\* LabelsDrain without the trailing loops: the cursor stays where it is.
LabelsDrainNone(a, i) == i

\* The trailing loops: skip le and __name__ labels from cursor i on.
RECURSIVE LabelsDrain(_, _)
LabelsDrain(a, i) ==
    IF i <= Len(a) /\ IgnoredLabel(a[i]) THEN LabelsDrain(a, i + 1) ELSE i

\* histogramLabelsEqual checks whether two label sets for a histogram series
\* are equal aside from their le and __name__ labels.
histogramLabelsEqual(a, b) ==
    LET c == LabelsScan(a, b, 1, 1) IN
    IF c = <<0, 0>> THEN FALSE
    ELSE /\ LabelsDrain(a, c[1]) = Len(a) + 1
         /\ LabelsDrain(b, c[2]) = Len(b) + 1

\* ------------------------------------------------------- series directory

\* A series entry of the directory (seriesCacheEntry): label set, metadata,
\* classified suffix, exported flag, hash and whether a tracker is attached.
\* Its proto template lives in the variable protos.
Entry(lset, metric, metricType, valueType, suffix, exported, hash, tracker) ==
    [lset |-> lset,
     metadata |-> [Metric |-> metric, MetricType |-> metricType,
                   ValueType |-> valueType],
     suffix |-> suffix, exported |-> exported, hash |-> hash,
     tracker |-> tracker]

Lset2(name, job) == <<Label("__name__", name), Label("job", job)>>
Lset3(name, job, k, v) ==
    <<Label("__name__", name), Label("job", job), Label(k, v)>>

\* The series the directory knows, by series reference.  Reference 9 is
\* absent from it (a lookup miss).
Directory ==
    [r \in {1, 2, 3, 4, 5, 6, 7, 8, 10, 11, 12, 13, 14, 15, 16, 17, 18} |->
       CASE r = 1 -> Entry(Lset2("c_total", "a"), "c_total",
                           MetricTypeCounter, ValueTypeINT64,
                           metricSuffixTotal, TRUE, 101, TRUE)
         [] r = 2 -> Entry(Lset2("g", "a"), "g", MetricTypeGauge,
                           ValueTypeINT64, "", TRUE, 102, FALSE)
         [] r = 3 -> Entry(Lset2("u", "a"), "u", MetricTypeUnknown,
                           ValueTypeDOUBLE, "", TRUE, 103, FALSE)
         [] r = 4 -> Entry(Lset2("s_sum", "a"), "s", MetricTypeSummary,
                           ValueTypeDOUBLE, metricSuffixSum, TRUE, 104, FALSE)
         [] r = 5 -> Entry(Lset2("s_count", "a"), "s", MetricTypeSummary,
                           ValueTypeDOUBLE, metricSuffixCount, TRUE, 105,
                           FALSE)
         [] r = 6 -> Entry(Lset3("s", "a", "quantile", "0.9"), "s",
                           MetricTypeSummary, ValueTypeDOUBLE, "", TRUE, 106,
                           FALSE)
         [] r = 7 -> Entry(Lset2("s_total", "a"), "s", MetricTypeSummary,
                           ValueTypeDOUBLE, metricSuffixTotal, TRUE, 107,
                           FALSE)
         [] r = 8 -> Entry(Lset2("gh", "a"), "gh", "gaugehistogram",
                           ValueTypeDOUBLE, "", TRUE, 108, FALSE)
         [] r = 10 -> Entry(Lset2("x", "a"), "x", MetricTypeGauge,
                            ValueTypeDOUBLE, "", FALSE, 110, TRUE)
         [] r = 11 -> Entry(Lset3("foo_bucket", "a", "le", "1"), "foo",
                            MetricTypeHistogram, ValueTypeDOUBLE,
                            metricSuffixBucket, TRUE, 120, FALSE)
         [] r = 12 -> Entry(Lset3("foo_bucket", "a", "le", "+Inf"), "foo",
                            MetricTypeHistogram, ValueTypeDOUBLE,
                            metricSuffixBucket, TRUE, 120, FALSE)
         [] r = 13 -> Entry(Lset2("foo_count", "a"), "foo",
                            MetricTypeHistogram, ValueTypeDOUBLE,
                            metricSuffixCount, TRUE, 120, TRUE)
         [] r = 14 -> Entry(Lset2("foo_sum", "a"), "foo",
                            MetricTypeHistogram, ValueTypeDOUBLE,
                            metricSuffixSum, TRUE, 120, FALSE)
         [] r = 15 -> Entry(Lset2("foo", "a"), "foo", MetricTypeHistogram,
                            ValueTypeDOUBLE, "", TRUE, 120, FALSE)
         [] r = 16 -> Entry(Lset3("foo_bucket", "a", "le", "abc"), "foo",
                            MetricTypeHistogram, ValueTypeDOUBLE,
                            metricSuffixBucket, TRUE, 120, FALSE)
         [] r = 17 -> Entry(Lset3("foo_bucket", "b", "le", "1"), "foo",
                            MetricTypeHistogram, ValueTypeDOUBLE,
                            metricSuffixBucket, TRUE, 121, FALSE)
         [] r = 18 -> Entry(Lset3("foo_bucket", "a", "le", "1.0"), "foo",
                            MetricTypeHistogram, ValueTypeDOUBLE,
                            metricSuffixBucket, TRUE, 120, FALSE)]

Refs == DOMAIN Directory \cup {9}

\* tsdb.RefSample.
RefSample(ref, t, v) == [Ref |-> ref, T |-> t, V |-> v]

\* The samples a batch is made of: every series at the scrape time 1000 with
\* a value of its own, a stale marker (NaN), and a later scrape at 1500.
SampleUniverse ==
    {RefSample(1, 1000, Fin(5)), RefSample(2, 1000, Fin(5)),
     RefSample(3, 1000, Fin(3)), RefSample(4, 1000, Fin(9)),
     RefSample(5, 1000, Fin(7)), RefSample(6, 1000, Fin(3)),
     RefSample(7, 1000, Fin(8)), RefSample(8, 1000, Fin(2)),
     RefSample(9, 1000, Fin(2)), RefSample(10, 1000, Fin(2)),
     RefSample(11, 1000, Fin(4)), RefSample(12, 1000, Fin(10)),
     RefSample(13, 1000, Fin(10)), RefSample(14, 1000, Fin(19)),
     RefSample(15, 1000, Fin(6)), RefSample(16, 1000, Fin(6)),
     RefSample(17, 1000, Fin(4)),
     RefSample(12, 1000, NaN), RefSample(13, 1500, Fin(12))}

RECURSIVE SeqsUpTo(_, _)
\* All sequences over S of length at most n.
SeqsUpTo(S, n) ==
    IF n = 0 THEN {<<>>}
    ELSE LET shorter == SeqsUpTo(S, n - 1) IN
         shorter \cup {Append(q, x) : q \in shorter, x \in S}

Batches == SeqsUpTo(SampleUniverse, MaxLen) \ {<<>>}
LoopBatches == SeqsUpTo(SampleUniverse, MaxLoopLen) \ {<<>>}

\* ------------------------------------------------- directory interface

ErrNil == "nil"
\* The error a failed lookup of the directory reports, and the same error as
\* next wraps it.
ErrLookup == "lookup failed"
ErrGet == "get series information: lookup failed"
ErrSuffix == "unexpected metric name suffix"
ErrType == "unexpected metric type"

\* A recorded call on the directory or on a tracker: the operation, its
\* arguments, and how it answered (Res).
Call(op, ref, t, v, rt, res) ==
    [Op |-> op, Ref |-> ref, T |-> t, V |-> v, RT |-> rt, Res |-> res]
GetCall(ref, g) ==
    Call("get", ref, 0, Zero, 0,
         IF g.err THEN "err" ELSE IF g.ok THEN "ok" ELSE "miss")
NewPointCall(ref, t, v) == Call("newPoint", ref, t, v, 0, "")
ResetCall(ref, t, v, r) ==
    Call("getResetAdjusted", ref, t, v, r.rt, IF r.ok THEN "ok" ELSE "noanchor")
IntervalCall(hash, rt, t, ok) ==
    Call("updateSampleInterval", hash, t, Zero, rt, IF ok THEN "true" ELSE "false")

\* seriesGetter.get(ctx, ref): (entry, ok, err).  The lookup may fail
\* transiently (err = TRUE); otherwise ok tells whether the series is known.
GetOutcomes(ref) ==
    {[err |-> TRUE, ok |-> FALSE], [err |-> FALSE, ok |-> ref \in DOMAIN Directory]}

FloatSub(a, b) ==
    IF a.k = "fin" /\ b.k = "fin" THEN Fin(a.n - b.n) ELSE a

\* seriesGetter.getResetAdjusted(ref, t, v): (resetTimestamp, adjusted value,
\* ok).  ok = FALSE when the series has no anchor yet; otherwise a reset
\* timestamp not later than t (0, an earlier anchor, or t itself) and the
\* value rebased to the reset epoch.
ResetOutcomes(ref, t, v) ==
    {[rt |-> 0, v |-> Zero, ok |-> FALSE],
     [rt |-> 0, v |-> v, ok |-> TRUE],
     [rt |-> AnchorTime, v |-> v, ok |-> TRUE],
     [rt |-> t, v |-> FloatSub(v, Fin(2)), ok |-> TRUE]}

\* The answers of getResetAdjusted as far as the histogram walk reads them:
\* it reads the reset timestamp for a _count series only (resetTimestamp =
\* rt), so for the other series answers that differ in it alone are one
\* case.
WalkResetOutcomes(ref, t, v, readsTimestamp) ==
    {IF readsTimestamp THEN r ELSE [r EXCEPT !.rt = 0] :
     r \in ResetOutcomes(ref, t, v)}

\* seriesGetter.updateSampleInterval(hash, resetTimestamp, t): the gate's
\* verdict.
IntervalOutcomes(hash, rt, t) == BOOLEAN

\* ----------------------------------------------------------- proto values

\* Pointer-valued fields are sequences of length at most one: <<>> is nil.
TypedValue(kind, d, i, dist) ==
    [Kind |-> kind, Double |-> d, Int64 |-> i, Distribution |-> dist]
DoubleValue(v) == TypedValue("double", v, 0, <<>>)
Int64Value(i) == TypedValue("int64", Zero, i, <<>>)
DistributionValue(d) == TypedValue("distribution", Zero, 0, <<d>>)

\* buildTypedValue: the set of values the conversion can produce (one, unless
\* the integer conversion is implementation-dependent).
buildTypedValue(valueType, v) ==
    IF valueType = ValueTypeINT64
    THEN {Int64Value(i) : i \in ToInt64(Round(v))}
    ELSE {DoubleValue(v)}

\* monitoring_pb.Point with only the end of its interval set.
NewPoint(t) ==
    [Interval |-> [StartTime |-> <<>>, EndTime |-> <<getTimestamp(t)>>],
     Value |-> <<>>]

\* point.Interval.StartTime = getTimestamp(resetTimestamp).
SetStartTime(point, resetTimestamp) ==
    [point EXCEPT !.Interval.StartTime = <<getTimestamp(resetTimestamp)>>]

SetValue(point, value) == [point EXCEPT !.Value = <<value>>]

metricsPrefix == "external.googleapis.com/prometheus"

\* getMetricType: the metric type of the backend for a Prometheus name.
getMetricType(prefix, promName) ==
    IF prefix = "" THEN metricsPrefix \o "/" \o promName
    ELSE prefix \o "/" \o promName

\* The template of a series entry as the directory builds it: the metric
\* type, and no points.
ProtoTemplate(ref) ==
    [Metric |-> getMetricType("", Directory[ref].metadata.Metric),
     Points |-> <<>>]

\* The templates of all series entries as the directory built them.
InitialProtos == [r \in DOMAIN Directory |-> ProtoTemplate(r)]

\* appendPoint without the copy (ts := entry.proto): the point lands in the
\* template too.
appendPointShared(template, point) ==
    [ts |-> [template EXCEPT !.Points = Append(@, point)],
     template |-> [template EXCEPT !.Points = Append(@, point)]]

\* ts := *entry.proto; ts.Points = append(ts.Points, point).  The result is
\* the copy that is sent on and the template as the statement leaves it.
appendPoint(template, point) ==
    [ts |-> [template EXCEPT !.Points = Append(@, point)],
     template |-> template]

\* ------------------------------------------------------- buildDistribution

\* sort.Sort(&dist) on a distribution of fewer than 12 buckets is an
\* insertion sort driven by Less (bounds[i] < bounds[j]) and Swap (both
\* arrays).
Less(d, i, j) == FloatLess(d.bounds[i], d.bounds[j])

Swap(d, i, j) ==
    [bounds |-> [d.bounds EXCEPT ![i] = d.bounds[j], ![j] = d.bounds[i]],
     values |-> [d.values EXCEPT ![i] = d.values[j], ![j] = d.values[i]]]

RECURSIVE SinkDown(_, _)
\* The inner loop of the insertion sort: for j > a && Less(j, j-1); j--.
SinkDown(d, j) ==
    IF j > 1 /\ Less(d, j, j - 1) THEN SinkDown(Swap(d, j, j - 1), j - 1)
    ELSE d

RECURSIVE InsertionSort(_, _)
InsertionSort(d, i) ==
    IF i > Len(d.bounds) THEN d ELSE InsertionSort(SinkDown(d, i), i + 1)

Sort(d) == InsertionSort(d, 2)

\* One iteration of the lowering loop for bucket i (1-based) of the sorted
\* distribution.  bounds and values are written into the arrays they are
\* read from (bounds = dist.bounds[:0], values = dist.values[:0]); nb is
\* len(bounds), and len(values) is i - 1.
LowerStep(l, i) ==
    LET upper0 == l.B[i]
        isInf == IsPosInf(upper0)
        upper == IF isInf THEN l.lower ELSE upper0
        val == WrapInt(l.V[i] - l.prevVal)
    IN [B |-> IF isInf THEN l.B ELSE [l.B EXCEPT ![l.nb + 1] = upper],
        V |-> [l.V EXCEPT ![i] = val],
        nb |-> IF isInf THEN l.nb ELSE l.nb + 1,
        lower |-> upper,
        prevVal |-> l.V[i]]

RECURSIVE LowerLoop(_, _)
LowerLoop(l, i) ==
    IF i > Len(l.B) THEN l ELSE LowerLoop(LowerStep(l, i), i + 1)

\* The cumulative-to-delta lowering of the sorted distribution: the emitted
\* explicit bounds and bucket counts.
Lower(d) ==
    LET l == LowerLoop([B |-> d.bounds, V |-> d.values, nb |-> 0,
                        lower |-> Zero, prevVal |-> 0], 1)
    IN [bounds |-> SubSeq(l.B, 1, l.nb), values |-> l.V]

\* distribution_pb.Distribution (without mean and sum of squared deviation).
Distribution(count, bounds, values) ==
    [Count |-> count, Bounds |-> bounds, BucketCounts |-> values]

\* The local variables of buildDistribution at its start.
WalkInit(calls) ==
    [consumed |-> 0, count |-> Zero, sum |-> Zero, resetTimestamp |-> 0,
     lastTimestamp |-> 0, bounds |-> <<>>, values |-> <<>>, skip |-> FALSE,
     calls |-> calls]

\* TimestampChanged without the comparison: the walk never stops at a
\* sample of another scrape.
TimestampChangedNever(idx, s, lastTimestamp) == FALSE

\* if i > 0 && s.T != lastTimestamp (i is the 0-based index idx - 1).
TimestampChanged(idx, s, lastTimestamp) == idx - 1 > 0 /\ s.T # lastTimestamp

\* SeriesMatches without the comparison of the labels.
SeriesMatchesAnyLabels(name, lset, baseName, matchLset) ==
    HasPrefix(name, baseName)

\* The series matches if it has the same base name and the labels aside
\* from le and __name__ match up.
SeriesMatches(name, lset, baseName, matchLset) ==
    HasPrefix(name, baseName) /\ histogramLabelsEqual(lset, matchLset)

\* The end of one loop iteration that consumed a sample of the family.
Consume(st, ok) ==
    [st EXCEPT !.skip = @ \/ ~ok, !.consumed = @ + 1]

\* The sample is consumed without contributing (lookup miss, bad le).
ConsumeOnly(st) == [st EXCEPT !.consumed = @ + 1]

RECURSIVE Loop(_, _, _, _, _)
RECURSIVE LoopGot(_, _, _, _, _, _)
RECURSIVE LoopAdjusted(_, _, _, _, _, _)

\* The walk over samples from index idx (1-based) on.  The result is the
\* set of ways the loop can end: [err, st], err telling that a lookup failed.
Loop(baseName, matchLset, samples, idx, st) ==
    IF idx > Len(samples) THEN {[err |-> FALSE, st |-> st]}
    ELSE UNION {LoopGot(baseName, matchLset, samples, idx,
                        [st EXCEPT !.calls = Append(@, GetCall(samples[idx].Ref, g))],
                        g) :
                g \in GetOutcomes(samples[idx].Ref)}

\* The iteration after b.series.get answered g.
LoopGot(baseName, matchLset, samples, idx, st, g) ==
    LET s == samples[idx] IN
    IF g.err THEN {[err |-> TRUE, st |-> st]}
    ELSE IF ~g.ok THEN Loop(baseName, matchLset, samples, idx + 1, ConsumeOnly(st))
    ELSE LET e == Directory[s.Ref]
             name == LabelsGet(e.lset, "__name__")
         IN IF ~SeriesMatches(name, e.lset, baseName, matchLset)
            THEN {[err |-> FALSE, st |-> st]}
            ELSE IF TimestampChanged(idx, s, st.lastTimestamp)
            THEN {[err |-> FALSE, st |-> st]}
            ELSE UNION {LoopAdjusted(baseName, matchLset, samples, idx,
                                     [st EXCEPT !.lastTimestamp = s.T,
                                                !.calls = Append(@, ResetCall(s.Ref, s.T, s.V, r))],
                                     r) :
                        r \in WalkResetOutcomes(
                               s.Ref, s.T, s.V,
                               TrimLen(name, baseName) = metricSuffixCount)}

\* The iteration after b.series.getResetAdjusted answered r: the switch on
\* the name's remainder after the base name.
LoopAdjusted(baseName, matchLset, samples, idx, st, r) ==
    LET e == Directory[samples[idx].Ref]
        suffix == TrimLen(LabelsGet(e.lset, "__name__"), baseName)
        next1(st2) == Loop(baseName, matchLset, samples, idx + 1, st2)
    IN CASE suffix = metricSuffixSum ->
              next1(Consume([st EXCEPT !.sum = r.v], r.ok))
         [] suffix = metricSuffixCount ->
              next1(Consume([st EXCEPT !.count = r.v, !.resetTimestamp = r.rt],
                            r.ok))
         [] suffix = metricSuffixBucket ->
              LET upper == ParseFloat(LabelsGet(e.lset, "le")) IN
              IF ~upper.ok THEN next1(ConsumeOnly(st))
              ELSE UNION {next1(Consume([st EXCEPT !.bounds = Append(@, upper.f),
                                                   !.values = Append(@, iv)],
                                        r.ok)) :
                          iv \in ToInt64(r.v)}
         [] OTHER -> {[err |-> FALSE, st |-> st]}

\* A return value of buildDistribution: (distribution or nil, reset
\* timestamp, remainder, error), and the calls made so far.
DistResult(dist, resetTimestamp, tail, err, calls) ==
    [dist |-> dist, resetTimestamp |-> resetTimestamp, tail |-> tail,
     err |-> err, calls |-> calls]

\* SliceFrom cutting the consumed samples off the end of the stream.
SliceFromEnd(samples, consumed) == SubSeq(samples, 1, Len(samples) - consumed)

\* samples[consumed:].
SliceFrom(samples, consumed) == SubSeq(samples, consumed + 1, Len(samples))

\* distLookupError returning samples[consumed:] as the other returns do.
distLookupErrorConsumed(samples, st) ==
    DistResult(<<>>, 0, SliceFrom(samples, st.consumed), ErrLookup, st.calls)

\* return nil, 0, samples, err: a lookup failed during the walk.
distLookupError(samples, st) ==
    DistResult(<<>>, 0, samples, ErrLookup, st.calls)

\* distSkipped without the test of the reset timestamp.
distSkippedNoTimestamp(st) == st.skip

\* Don't emit a sample if we explicitly skip it or no reset timestamp was
\* set because the count series was missing.
distSkipped(st) == st.skip \/ st.resetTimestamp = 0

\* The distribution built from the gathered buckets, for each outcome of
\* int64(count).
distEmitted(samples, st) ==
    LET l == Lower(Sort([bounds |-> st.bounds, values |-> st.values])) IN
    {DistResult(<<Distribution(c, l.bounds, l.values)>>, st.resetTimestamp,
                SliceFrom(samples, st.consumed), ErrNil, st.calls) :
     c \in ToInt64(st.count)}

\* What buildDistribution returns once the loop has ended as w.
distFinish(samples, w) ==
    IF w.err THEN {distLookupError(samples, w.st)}
    ELSE IF distSkipped(w.st)
    THEN {DistResult(<<>>, 0, SliceFrom(samples, w.st.consumed), ErrNil,
                     w.st.calls)}
    ELSE distEmitted(samples, w.st)

\* buildDistribution consumes series from the beginning of the input slice
\* that belong to a histogram with the given metric name and label set.
buildDistribution(baseName, matchLset, samples, calls) ==
    UNION {distFinish(samples, w) :
           w \in Loop(baseName, matchLset, samples, 1, WalkInit(calls))}

\* -------------------------------------------------------------------- next

\* A return value of next: (time series or nil, hash, remainder, error),
\* with the calls made on the collaborators and the template of the head
\* series as the call leaves it (<<>> when the call never got hold of it).
Ret(ts, hash, tail, err, calls, template) ==
    [ts |-> ts, hash |-> hash, tail |-> tail, err |-> err, calls |-> calls,
     template |-> template]

\* The outcome of the switch on the metric type: either a return value in
\* the making (emit = FALSE: nil, 0, tail, err) or a candidate point.
Candidate(emit, point, resetTimestamp, tail, err, calls) ==
    [emit |-> emit, point |-> point, resetTimestamp |-> resetTimestamp,
     tail |-> tail, err |-> err, calls |-> calls]
NoPoint(tail, err, calls) == Candidate(FALSE, NewPoint(0), 0, tail, err, calls)

\* return nil, 0, samples, errors.Wrap(err, "get series information").
nextLookupError(samples, calls) ==
    Ret(<<>>, 0, samples, ErrGet, calls, <<>>)

\* return nil, 0, tailSamples, nil: the sample is dropped.
nextDropped(samples, calls) ==
    Ret(<<>>, 0, Tail(samples), ErrNil, calls, <<>>)

\* The typed values a case of the switch builds from v: buildTypedValue for
\* a Counter, Gauge or Unknown, a double for a Summary _sum or quantile, the
\* truncated integer for a Summary _count.
caseValues(conv, valueType, v) ==
    CASE conv = "typed" -> buildTypedValue(valueType, v)
      [] conv = "double" -> {DoubleValue(v)}
      [] conv = "int64" -> {Int64Value(i) : i \in ToInt64(v)}

\* case Counter, and the _sum and _count cases of a Summary: reset-adjust,
\* drop the sample when there is no anchor, else set the start time and the
\* value.
resetAdjustedCase(sample, tail, point, calls, conv, valueType) ==
    UNION {IF ~r.ok
           THEN {NoPoint(tail, ErrNil,
                         Append(calls, ResetCall(sample.Ref, sample.T, sample.V, r)))}
           ELSE {Candidate(TRUE, SetValue(SetStartTime(point, r.rt), tv), r.rt,
                           tail, ErrNil,
                           Append(calls, ResetCall(sample.Ref, sample.T, sample.V, r))) :
                 tv \in caseValues(conv, valueType, r.v)} :
           r \in ResetOutcomes(sample.Ref, sample.T, sample.V)}

\* instantCase setting a start time as the cumulative cases do.
instantCaseWithStart(tail, point, calls, values) ==
    {Candidate(TRUE, SetValue(SetStartTime(point, 0), tv), 0, tail, ErrNil, calls) :
     tv \in values}

\* case Gauge, Unknown, and the quantile case of a Summary.
instantCase(tail, point, calls, values) ==
    {Candidate(TRUE, SetValue(point, tv), 0, tail, ErrNil, calls) : tv \in values}

\* default of the suffix switch of a Summary:
\* return nil, 0, tailSamples, errors.Errorf("unexpected metric name suffix").
unexpectedSuffix(samples, calls) == NoPoint(Tail(samples), ErrSuffix, calls)

\* unexpectedType returning samples instead of samples[1:].
unexpectedTypeKeepsSample(samples, calls) == NoPoint(samples, ErrType, calls)

\* default of the type switch:
\* return nil, 0, samples[1:], errors.Errorf("unexpected metric type").
unexpectedType(samples, calls) == NoPoint(SliceFrom(samples, 1), ErrType, calls)

\* case Summary: the switch on entry.suffix.
summaryCase(entry, samples, point, calls) ==
    LET sample == samples[1]
        tail == Tail(samples)
        vt == entry.metadata.ValueType
    IN CASE entry.suffix = metricSuffixSum ->
              resetAdjustedCase(sample, tail, point, calls, "double", vt)
         [] entry.suffix = metricSuffixCount ->
              resetAdjustedCase(sample, tail, point, calls, "int64", vt)
         [] entry.suffix = "" ->
              instantCase(tail, point, calls, caseValues("double", vt, sample.V))
         [] OTHER -> {unexpectedSuffix(samples, calls)}

\* if v == nil || err != nil { return nil, 0, tailSamples, err }, with
\* tailSamples the remainder buildDistribution returned.
histogramNoPoint(d) == d.dist = <<>> \/ d.err # ErrNil

\* case Histogram.
histogramCase(entry, samples, point, calls) ==
    {IF histogramNoPoint(d)
     THEN NoPoint(d.tail, d.err, d.calls)
     ELSE Candidate(TRUE,
                    SetValue(SetStartTime(point, d.resetTimestamp),
                             DistributionValue(d.dist[1])),
                    d.resetTimestamp, d.tail, ErrNil, d.calls) :
     d \in buildDistribution(entry.metadata.Metric, entry.lset, samples, calls)}

\* switch entry.metadata.MetricType.
dispatch(entry, samples, point, calls) ==
    LET sample == samples[1]
        tail == Tail(samples)
        vt == entry.metadata.ValueType
        mt == entry.metadata.MetricType
    IN CASE mt = MetricTypeCounter ->
              resetAdjustedCase(sample, tail, point, calls, "typed", vt)
         [] mt \in {MetricTypeGauge, MetricTypeUnknown} ->
              instantCase(tail, point, calls, caseValues("typed", vt, sample.V))
         [] mt = MetricTypeSummary -> summaryCase(entry, samples, point, calls)
         [] mt = MetricTypeHistogram -> histogramCase(entry, samples, point, calls)
         [] OTHER -> {unexpectedType(samples, calls)}

\* gate returning the point whatever the interval gate answers.
gateIgnoresVerdict(entry, sample, c, ap) ==
    {Ret(<<ap.ts>>, entry.hash, c.tail, ErrNil,
         Append(c.calls, IntervalCall(entry.hash, c.resetTimestamp, sample.T, ok)),
         <<ap.template>>) :
     ok \in IntervalOutcomes(entry.hash, c.resetTimestamp, sample.T)}

\* gate returning entry.hash also when the interval gate refuses the point.
gateKeepsHash(entry, sample, c, ap) ==
    {Ret(IF ok THEN <<ap.ts>> ELSE <<>>, entry.hash, c.tail, ErrNil,
         Append(c.calls, IntervalCall(entry.hash, c.resetTimestamp, sample.T, ok)),
         <<ap.template>>) :
     ok \in IntervalOutcomes(entry.hash, c.resetTimestamp, sample.T)}

\* if !b.series.updateSampleInterval(...) { return nil, 0, tailSamples, nil }
\* return &ts, entry.hash, tailSamples, nil
gate(entry, sample, c, ap) ==
    {IF ok
     THEN Ret(<<ap.ts>>, entry.hash, c.tail, ErrNil,
              Append(c.calls, IntervalCall(entry.hash, c.resetTimestamp, sample.T, ok)),
              <<ap.template>>)
     ELSE Ret(<<>>, 0, c.tail, ErrNil,
              Append(c.calls, IntervalCall(entry.hash, c.resetTimestamp, sample.T, ok)),
              <<ap.template>>) :
     ok \in IntervalOutcomes(entry.hash, c.resetTimestamp, sample.T)}

\* next from the tracker notification on, for a series the directory knows.
nextFound(samples, calls, template) ==
    LET sample == samples[1]
        entry == Directory[sample.Ref]
        calls1 == IF entry.tracker
                  THEN Append(calls, NewPointCall(sample.Ref, sample.T, sample.V))
                  ELSE calls
    IN IF ~entry.exported THEN {nextDropped(samples, calls1)}
       ELSE UNION {
              LET ap == appendPoint(template, c.point) IN
              IF c.emit
              THEN gate(entry, sample, c, ap)
              ELSE {Ret(<<>>, 0, c.tail, c.err, c.calls, <<ap.template>>)} :
              c \in dispatch(entry, samples, NewPoint(sample.T), calls1)}

\* next after b.series.get answered g for the head sample.
nextGot(samples, templates, g) ==
    LET calls == <<GetCall(samples[1].Ref, g)>> IN
    IF g.err THEN {nextLookupError(samples, calls)}
    ELSE IF ~g.ok THEN {nextDropped(samples, calls)}
    ELSE nextFound(samples, calls, templates[samples[1].Ref])

\* next extracts the next sample from the TSDB input sample list and
\* returns the remainder of the input: the set of its possible returns.
next(samples, templates) ==
    IF IsNaN(samples[1].V) THEN {nextDropped(samples, <<>>)}
    ELSE UNION {nextGot(samples, templates, g) : g \in GetOutcomes(samples[1].Ref)}

\* ------------------------------------------------------------ the caller

VARIABLES
    samples,   \* the samples of the batch the caller still has to hand to next
    input,     \* the samples passed to the call of next that has just
               \* returned (<<>>: no return value is waiting for the caller)
    ret,       \* what that call returned: [ts, hash, err]
    calls,     \* the calls it made on the directory and on trackers
    protos,    \* the proto template of every series entry
    lsets,     \* the pair of label sets handed to histogramLabelsEqual
               \* (<<>> while the caller of next is at work)
    equal,     \* its verdicts on them (<<>>: not compared yet)
    streams,   \* the pair of streams handed to buildDistribution, two
               \* orders of one histogram family (<<>> while the caller of
               \* next is at work)
    built      \* what buildDistribution returned for each (<<>>: not
               \* called yet)

callerVars == <<samples, input, ret, calls, protos>>
labelVars == <<lsets, equal>>
familyVars == <<streams, built>>
vars == <<samples, input, ret, calls, protos, lsets, equal, streams, built>>

NoRet == [ts |-> <<>>, hash |-> 0, err |-> ErrNil]

\* The tailer has handed the caller a batch of samples; next has not been
\* called on it yet.
InitWith(batches) ==
    /\ samples \in batches
    /\ input = <<>>
    /\ ret = NoRet
    /\ calls = <<>>
    /\ protos = InitialProtos
    /\ lsets = <<>>
    /\ equal = <<>>
    /\ streams = <<>>
    /\ built = <<>>

Init == InitWith(Batches)

\* next returns r to the caller.
Returned(r) ==
    /\ input' = samples
    /\ samples' = r.tail
    /\ ret' = [ts |-> r.ts, hash |-> r.hash, err |-> r.err]
    /\ calls' = r.calls
    /\ protos' = IF r.template = <<>> THEN protos
                 ELSE [protos EXCEPT ![samples[1].Ref] = r.template[1]]
    /\ UNCHANGED <<labelVars, familyVars>>

\* The caller invokes next on what is left of the batch and keeps the
\* remainder it returns.
CallNext ==
    /\ samples # <<>>
    /\ input = <<>>
    /\ \E r \in next(samples, protos) : Returned(r)

\* The caller deals with what next returned (it ships the point or reports
\* the error) and goes round its loop again.
Handle ==
    /\ input # <<>>
    /\ input' = <<>>
    /\ ret' = NoRet
    /\ calls' = <<>>
    /\ UNCHANGED <<samples, protos, labelVars, familyVars>>

Next == CallNext \/ Handle

Spec == Init /\ [][Next]_vars

\* The same caller with a series directory whose lookups never fail: no call
\* of next ends with a lookup error.  The caller's loop runs on as long as
\* samples are left, hence the weak fairness of its step.
CallNextNoLookupError ==
    /\ samples # <<>>
    /\ input = <<>>
    /\ \E r \in {x \in next(samples, protos) : x.err \notin {ErrGet, ErrLookup}} :
         Returned(r)

NextNoLookupError == CallNextNoLookupError \/ Handle

InitLoop == InitWith(LoopBatches)

SpecNoLookupError ==
    /\ InitLoop
    /\ [][NextNoLookupError]_vars
    /\ WF_vars(CallNextNoLookupError)
    /\ WF_vars(Handle)

\* ------------------------------------------- histogramLabelsEqual alone

\* The labels the compared label sets are made of: the two ignored names,
\* and ordinary labels that differ in name or in value.
LabelUniverse ==
    {Label("__name__", "foo_bucket"), Label("le", "1"), Label("job", "a"),
     Label("job", "b"), Label("zone", "a")}

LabelSets == SeqsUpTo(LabelUniverse, MaxLabels)

\* Any two label sequences are about to be compared.
InitLabels ==
    /\ samples = <<>>
    /\ input = <<>>
    /\ ret = NoRet
    /\ calls = <<>>
    /\ protos = InitialProtos
    /\ lsets \in LabelSets \X LabelSets
    /\ equal = <<>>
    /\ streams = <<>>
    /\ built = <<>>

\* histogramLabelsEqual is applied to the pair, to the swapped pair and to
\* the first label set with itself.
CompareLabels ==
    /\ equal = <<>>
    /\ equal' = <<[ab |-> histogramLabelsEqual(lsets[1], lsets[2]),
                   ba |-> histogramLabelsEqual(lsets[2], lsets[1]),
                   aa |-> histogramLabelsEqual(lsets[1], lsets[1])]>>
    /\ UNCHANGED <<callerVars, lsets, familyVars>>

SpecLabels == InitLabels /\ [][CompareLabels]_vars

\* ---------------------------------------------- buildDistribution alone

\* The samples of one scrape of the histogram foo: its buckets (le = 1,
\* 1.0, +Inf and the unparseable abc), its _count and its _sum.
FamilyUniverse ==
    {RefSample(11, 1000, Fin(4)), RefSample(18, 1000, Fin(6)),
     RefSample(12, 1000, Fin(10)), RefSample(16, 1000, Fin(6)),
     RefSample(13, 1000, Fin(10)), RefSample(14, 1000, Fin(19))}

Families ==
    {S \in SUBSET FamilyUniverse : Cardinality(S) \in 1..MaxFamily}

\* The orders in which the samples of S can stand in a stream.
Orders(S) ==
    {q \in SeqsUpTo(S, Cardinality(S)) :
       /\ Len(q) = Cardinality(S)
       /\ \A x \in S : \E i \in 1..Len(q) : q[i] = x}

\* What follows the family in the stream: nothing, or a sample of another
\* metric.
FamilyRests == {<<>>, <<RefSample(2, 1000, Fin(5))>>}

\* Two streams that differ in the order of their family prefix only.
InitFamily ==
    /\ samples = <<>>
    /\ input = <<>>
    /\ ret = NoRet
    /\ calls = <<>>
    /\ protos = InitialProtos
    /\ lsets = <<>>
    /\ equal = <<>>
    /\ \E S \in Families, rest \in FamilyRests :
         streams \in {<<p \o rest, q \o rest>> :
                        p \in Orders(S), q \in Orders(S)}
    /\ built = <<>>

\* buildDistribution as next calls it for the head of the stream, with a
\* directory whose lookups do not fail.
BuildFrom(stream) ==
    {d \in buildDistribution(Directory[stream[1].Ref].metadata.Metric,
                             Directory[stream[1].Ref].lset, stream, <<>>) :
       d.err = ErrNil}

\* The directory gave the same answers in both walks (each series is asked
\* once per walk).
SameAnswers(calls1, calls2) ==
    {calls1[i] : i \in DOMAIN calls1} = {calls2[i] : i \in DOMAIN calls2}

\* buildDistribution is applied to both streams with the same directory
\* state.
BuildBoth ==
    /\ built = <<>>
    /\ \E d1 \in BuildFrom(streams[1]), d2 \in BuildFrom(streams[2]) :
         /\ SameAnswers(d1.calls, d2.calls)
         /\ built' = <<d1, d2>>
    /\ UNCHANGED <<callerVars, labelVars, streams>>

SpecFamily == InitFamily /\ [][BuildBoth]_vars

\* ------------------------------------------------------------- properties

\* A call of next has returned: input is what it was given, samples what it
\* gave back, ret and calls what it returned and did.
Called == input # <<>>
HasPoint == ret.ts # <<>>
HeadSample == input[1]
HeadKnown == HeadSample.Ref \in DOMAIN Directory
HeadEntry == Directory[HeadSample.Ref]
\* The point the call attached to the returned time series.
ThePoint == ret.ts[1].Points[Len(ret.ts[1].Points)]
HistogramEmitted == HasPoint /\ ThePoint.Value[1].Kind = "distribution"
EmittedDistribution == ThePoint.Value[1].Distribution[1]
LookupFailed ==
    \E i \in 1..Len(calls) : calls[i].Op = "get" /\ calls[i].Res = "err"
CallsOf(op) == {i \in 1..Len(calls) : calls[i].Op = op}

RECURSIVE SumSeq(_)
SumSeq(q) == IF q = <<>> THEN 0 ELSE q[1] + SumSeq(Tail(q))

\* C1: a call of next returns a stream no longer than its input, and a
\* strictly shorter one whenever the returned error is nil.
C1_NextShortensStream ==
    Called =>
      /\ Len(samples) <= Len(input)
      /\ ret.err = ErrNil => Len(samples) < Len(input)

\* C2: with a directory whose lookups never fail, a caller that keeps
\* handing next its own remainder eventually reaches the empty stream.
C2_CallerReachesEmptyStream == <>(samples = <<>>)

\* C3: whenever a lookup failed during the call, for the head sample or
\* for a sample visited by the histogram walk, next returns no point, hash
\* 0, a non-nil error and the input stream unchanged.
C3_LookupErrorReturnsInput ==
    (Called /\ LookupFailed) =>
      /\ ret.ts = <<>>
      /\ ret.hash = 0
      /\ ret.err # ErrNil
      /\ samples = input

\* A lookup failed in the histogram walk after samples of the family had
\* been walked over, and the whole input came back.
C3_Witness ==
    /\ Called
    /\ Len(input) >= 2
    /\ calls[Len(calls)].Op = "get"
    /\ calls[Len(calls)].Res = "err"
    /\ Cardinality(CallsOf("get")) >= 3
    /\ samples = input

\* C4: a call of next that ends with a lookup error has left the
\* collaborators alone: no getResetAdjusted, no updateSampleInterval, no
\* tracker notification happened during it.
C4_FailedCallLeavesNoTrace ==
    (Called /\ ret.err \in {ErrGet, ErrLookup}) =>
      \A i \in 1..Len(calls) : calls[i].Op = "get"

\* C5: every emitted histogram distribution has exactly one more bucket
\* count than explicit bounds.
C5_OneMoreCountThanBounds ==
    HistogramEmitted =>
      Len(EmittedDistribution.BucketCounts) = Len(EmittedDistribution.Bounds) + 1

\* C6: for every emitted histogram distribution the bucket counts add up to
\* the distribution's count.
C6_BucketCountsSumToCount ==
    HistogramEmitted =>
      SumSeq(EmittedDistribution.BucketCounts) = EmittedDistribution.Count

\* The head is a series whose points carry a start time: a Counter, the
\* _sum or _count of a Summary, or a Histogram.
CumulativeHead ==
    /\ HeadKnown
    /\ \/ HeadEntry.metadata.MetricType \in {MetricTypeCounter, MetricTypeHistogram}
       \/ /\ HeadEntry.metadata.MetricType = MetricTypeSummary
          /\ HeadEntry.suffix \in {metricSuffixSum, metricSuffixCount}

\* C7: every point emitted for a Counter, a Summary _sum/_count or a
\* Histogram has a start time, and it is not later than the end time (the
\* directory never answers a reset timestamp later than the sample's t).
C7_StartNotAfterEnd ==
    (HasPoint /\ CumulativeHead) =>
      /\ ThePoint.Interval.StartTime # <<>>
      /\ TsLeq(ThePoint.Interval.StartTime[1], ThePoint.Interval.EndTime[1])

\* A histogram built from several samples was emitted, anchored at the
\* time of its scrape.
C7_Witness ==
    /\ HistogramEmitted
    /\ Len(input) - Len(samples) >= 2
    /\ ThePoint.Interval.StartTime = ThePoint.Interval.EndTime

\* C8: every returned time series carries exactly one point, whose end time
\* is the protobuf timestamp of the head sample's t, and the call leaves
\* the proto template of every series entry as the directory built it.
C8_OnePointEndingAtHead ==
    /\ HasPoint =>
         /\ Len(ret.ts[1].Points) = 1
         /\ ret.ts[1].Points[1].Interval.EndTime = <<getTimestamp(HeadSample.T)>>
    /\ protos = InitialProtos

\* A histogram that consumed several samples was returned for a head
\* scraped at 1000 ms: its end time is 1 s, 0 ns.
C8_Witness ==
    /\ HistogramEmitted
    /\ Len(input) - Len(samples) = 3
    /\ ThePoint.Interval.EndTime = <<[Seconds |-> 1, Nanos |-> 0]>>

\* C9: a call returns (point, hash, remainder, nil), (nil, 0, remainder,
\* nil) or (nil, 0, remainder, err): never a point together with an error,
\* and hash 0 whenever there is no point.
C9_ThreeOutcomeShapes ==
    Called =>
      /\ HasPoint => (ret.err = ErrNil /\ ret.hash = HeadEntry.hash)
      /\ ~HasPoint => ret.hash = 0

\* The interval gate refused a point that had been built: nothing is
\* returned, with hash 0 and no error.
C9_Witness ==
    /\ Called
    /\ ~HasPoint
    /\ ret.hash = 0
    /\ ret.err = ErrNil
    /\ calls[Len(calls)].Op = "updateSampleInterval"
    /\ calls[Len(calls)].Res = "false"

\* The head is an exported Summary series with a suffix other than "",
\* _sum and _count.
BadSummarySuffix ==
    /\ ~IsNaN(HeadSample.V)
    /\ HeadKnown
    /\ HeadEntry.exported
    /\ HeadEntry.metadata.MetricType = MetricTypeSummary
    /\ HeadEntry.suffix \notin {"", metricSuffixSum, metricSuffixCount}

\* The head is an exported series of a type other than Counter, Gauge,
\* Unknown, Summary and Histogram.
BadMetricType ==
    /\ ~IsNaN(HeadSample.V)
    /\ HeadKnown
    /\ HeadEntry.exported
    /\ HeadEntry.metadata.MetricType \notin
         {MetricTypeCounter, MetricTypeGauge, MetricTypeUnknown,
          MetricTypeSummary, MetricTypeHistogram}

\* C10: next returns an error only when a lookup failed, for an exported
\* Summary series with an unexpected suffix, or for an exported series of
\* an unexpected type; in the last two cases the returned stream is the
\* input without its first sample.
C10_ErrorsOnlyInThreeCases ==
    Called =>
      /\ ret.err # ErrNil => (LookupFailed \/ BadSummarySuffix \/ BadMetricType)
      /\ ret.err \in {ErrGet, ErrLookup} => LookupFailed
      /\ ret.err \in {ErrNil, ErrGet, ErrLookup, ErrSuffix, ErrType}
      /\ ret.err = ErrSuffix => (BadSummarySuffix /\ samples = Tail(input))
      /\ ret.err = ErrType => (BadMetricType /\ samples = Tail(input))

\* An unexpected metric type was reported for the head of a longer stream.
C10_Witness ==
    /\ Called
    /\ ret.err = ErrType
    /\ Len(input) >= 2
    /\ samples = Tail(input)

\* C11: the stream next returns is a suffix of its input: the consumed
\* samples are a contiguous prefix and the retained ones are the same
\* samples in the same order.
C11_RemainderIsSuffix ==
    Called =>
      \E k \in 0..Len(input) : samples = SubSeq(input, k + 1, Len(input))

\* A histogram walk consumed two samples of a stream of three and left the
\* third, a different sample, as the remainder.
C11_Witness ==
    /\ Called
    /\ Len(input) = 3
    /\ HeadKnown
    /\ HeadEntry.metadata.MetricType = MetricTypeHistogram
    /\ samples = <<input[3]>>
    /\ input[3] # input[1]
    /\ input[3] # input[2]

Compared == equal # <<>>
\* The label set with every le and __name__ label deleted.
WithoutIgnored(lset) == SelectSeq(lset, LAMBDA l : ~IgnoredLabel(l))

\* C12: histogramLabelsEqual(a, b) is true exactly when a and b are the
\* same sequence of labels (name and value) once every le and __name__
\* label is deleted from both.
C12_EqualIffSameWithoutIgnored ==
    Compared =>
      (equal[1].ab <=> WithoutIgnored(lsets[1]) = WithoutIgnored(lsets[2]))

\* Two label sets were found equal of which the first has a leading le and
\* the second a trailing, repeated __name__ that the first has not.
C12_Witness ==
    /\ Compared
    /\ equal[1].ab
    /\ lsets[1] = <<Label("le", "1"), Label("job", "a")>>
    /\ lsets[2] = <<Label("job", "a"), Label("__name__", "foo_bucket"),
                    Label("__name__", "foo_bucket")>>

\* C13: histogramLabelsEqual is reflexive and symmetric.
C13_ReflexiveAndSymmetric ==
    Compared => (equal[1].aa /\ equal[1].ab = equal[1].ba)

\* Two different label sets were found equal in both orders: the ignored
\* label of the second argument is met before any of the first.
C13_Witness ==
    /\ Compared
    /\ equal[1].ab
    /\ equal[1].ba
    /\ lsets[1] = <<Label("job", "a"), Label("zone", "a"), Label("le", "1")>>
    /\ lsets[2] = <<Label("le", "1"), Label("job", "a"), Label("zone", "a")>>

\* The number of samples the call consumed.
Consumed == Len(input) - Len(samples)

\* The i-th sample of the input was consumed by a histogram walk and is a
\* _sum, a _count or a parseable _bucket of the head's family: its value
\* went into the distribution.
Contributing(i) ==
    /\ HeadKnown
    /\ HeadEntry.metadata.MetricType = MetricTypeHistogram
    /\ i <= Consumed
    /\ input[i].Ref \in DOMAIN Directory
    /\ LET e == Directory[input[i].Ref]
           suffix == TrimLen(LabelsGet(e.lset, "__name__"),
                             HeadEntry.metadata.Metric)
       IN \/ suffix \in {metricSuffixSum, metricSuffixCount}
          \/ /\ suffix = metricSuffixBucket
             /\ ParseFloat(LabelsGet(e.lset, "le")).ok

\* C14: a NaN sample is dropped without emitting: no point is emitted from
\* a walk that a NaN sample contributed to, no NaN value is passed to
\* getResetAdjusted or to a tracker, and a NaN head consumes one sample
\* without any call on the directory.
C14_NaNDroppedWithoutEmitting ==
    Called =>
      /\ HasPoint => \A i \in 1..Len(input) :
                       Contributing(i) => ~IsNaN(input[i].V)
      /\ \A i \in 1..Len(calls) :
           calls[i].Op \in {"getResetAdjusted", "newPoint"} => ~IsNaN(calls[i].V)
      /\ IsNaN(HeadSample.V) =>
           /\ ~HasPoint
           /\ ret.err = ErrNil
           /\ samples = Tail(input)
           /\ calls = <<>>

\* The head is an exported Histogram series with a value: next has run
\* buildDistribution.
HistogramHead ==
    /\ Called
    /\ ~IsNaN(HeadSample.V)
    /\ HeadKnown
    /\ HeadEntry.exported
    /\ HeadEntry.metadata.MetricType = MetricTypeHistogram

\* The name of series ref after the base name of the head's family.
SuffixOf(ref) ==
    TrimLen(LabelsGet(Directory[ref].lset, "__name__"), HeadEntry.metadata.Metric)

\* The getResetAdjusted calls of the walk for the samples of a kind: the
\* _count samples, and the samples that contribute to the distribution.
CountCalls ==
    {i \in CallsOf("getResetAdjusted") : SuffixOf(calls[i].Ref) = metricSuffixCount}
ContributingCalls ==
    {i \in CallsOf("getResetAdjusted") :
       \/ SuffixOf(calls[i].Ref) \in {metricSuffixSum, metricSuffixCount}
       \/ /\ SuffixOf(calls[i].Ref) = metricSuffixBucket
          /\ ParseFloat(LabelsGet(Directory[calls[i].Ref].lset, "le")).ok}

\* A _count sample of the consumed prefix got an anchor with a non-zero
\* reset timestamp, and no contributing sample was without anchor.
FamilyAnchored ==
    /\ \E i \in CountCalls : calls[i].Res = "ok" /\ calls[i].RT # 0
    /\ \A i \in ContributingCalls : calls[i].Res = "ok"

\* The samples the walk consumed, as the calls tell: those the directory
\* does not know, and those of the family with one of the three suffixes.
WalkConsumed ==
    Cardinality({i \in CallsOf("get") : i > 1 /\ calls[i].Res = "miss"})
    + Cardinality({i \in CallsOf("getResetAdjusted") :
                     SuffixOf(calls[i].Ref) \in
                       {metricSuffixSum, metricSuffixCount, metricSuffixBucket}})

LastCountCall == CHOOSE i \in CountCalls : \A j \in CountCalls : j <= i

\* What C15 and its amended form share: a point only for an anchored
\* family, with the reset timestamp of the last _count as start time.
HistogramPointAnchored ==
    HasPoint =>
      /\ FamilyAnchored
      /\ ThePoint.Interval.StartTime = <<getTimestamp(calls[LastCountCall].RT)>>

HistogramSilentlySkipped ==
    /\ ~HasPoint
    /\ ret.err = ErrNil
    /\ samples = SliceFrom(input, WalkConsumed)

\* C15 as stated: a histogram point is emitted only for an anchored family
\* (a _count with a non-zero reset timestamp, no contributing sample
\* without anchor), its start time is the reset timestamp of the last
\* _count, and otherwise next returns no point, no error and the remainder
\* after the consumed prefix.
C15_PointOnlyIfAnchoredElseSilent ==
    HistogramHead =>
      /\ HistogramPointAnchored
      /\ ~FamilyAnchored => HistogramSilentlySkipped

\* C15 amended: the same, where "otherwise" is said of the walks during
\* which no lookup failed (a failed lookup is reported as an error).
C15_PointOnlyIfAnchoredElseSilentUnlessLookupFailed ==
    HistogramHead =>
      /\ HistogramPointAnchored
      /\ (~FamilyAnchored /\ ~LookupFailed) => HistogramSilentlySkipped

\* The _count of a family got an anchor but one of its buckets did not: the
\* whole consumed prefix is skipped silently.
C15_Witness ==
    /\ HistogramHead
    /\ \E i \in CountCalls : calls[i].Res = "ok" /\ calls[i].RT # 0
    /\ \E i \in ContributingCalls : calls[i].Res = "noanchor"
    /\ ~LookupFailed
    /\ Consumed >= 2
    /\ HistogramSilentlySkipped

\* The i-th sample of the input (1-based) is one the walk stops at: a known
\* series whose name does not start with the base name, whose labels do not
\* match the head's, whose timestamp (past the head) is not the head's, or
\* whose suffix is none of _sum, _count and _bucket.
StopsWalk(i) ==
    /\ input[i].Ref \in DOMAIN Directory
    /\ LET e == Directory[input[i].Ref]
           name == LabelsGet(e.lset, "__name__")
       IN \/ ~HasPrefix(name, HeadEntry.metadata.Metric)
          \/ WithoutIgnored(e.lset) # WithoutIgnored(HeadEntry.lset)
          \/ i > 1 /\ input[i].T # HeadSample.T
          \/ SuffixOf(input[i].Ref) \notin
               {metricSuffixSum, metricSuffixCount, metricSuffixBucket}

\* The first sample the walk stops at, Len(input) + 1 if there is none.
FirstStop ==
    IF \E i \in 1..Len(input) : StopsWalk(i)
    THEN CHOOSE i \in 1..Len(input) :
           StopsWalk(i) /\ \A j \in 1..(i - 1) : ~StopsWalk(j)
    ELSE Len(input) + 1

C17_BoundsAscendingCountsNonNegative ==
    HistogramEmitted =>
      /\ \A i \in 1..(Len(EmittedDistribution.Bounds) - 1) :
           FloatLess(EmittedDistribution.Bounds[i], EmittedDistribution.Bounds[i + 1])
      /\ \A i \in 1..Len(EmittedDistribution.BucketCounts) :
           EmittedDistribution.BucketCounts[i] >= 0

Built == built # <<>>
\* The number of samples buildDistribution consumed of the i-th stream.
BuiltConsumed(i) == Len(streams[i]) - Len(built[i].tail)

\* C18: two streams whose family prefix is the same set of samples in two
\* orders yield, with the same directory state, the same distribution
\* (count, explicit bounds, bucket counts), the same reset timestamp and
\* the same number of consumed samples.
C18_OrderOfFamilyIrrelevant ==
    Built =>
      /\ built[1].dist = built[2].dist
      /\ built[1].resetTimestamp = built[2].resetTimestamp
      /\ BuiltConsumed(1) = BuiltConsumed(2)

IntervalCalls == CallsOf("updateSampleInterval")

\* The reset timestamp the call took for the start time of its point: that
\* of the last _count of a histogram, that of the head of a Counter or a
\* Summary _sum/_count, and 0 for the series without start time.
StartReset ==
    IF ~CumulativeHead THEN 0
    ELSE IF HeadEntry.metadata.MetricType = MetricTypeHistogram
    THEN calls[LastCountCall].RT
    ELSE calls[CHOOSE i \in CallsOf("getResetAdjusted") : TRUE].RT

\* The call dropped its sample before a point was built: a NaN, a missing
\* or unexported series, a missing anchor, a skipped histogram, an error.
DroppedBeforePoint ==
    \/ IsNaN(HeadSample.V)
    \/ ~HeadKnown
    \/ ~HeadEntry.exported
    \/ ret.err # ErrNil
    \/ /\ CumulativeHead
       /\ HeadEntry.metadata.MetricType # MetricTypeHistogram
       /\ \E i \in CallsOf("getResetAdjusted") : calls[i].Res = "noanchor"
    \/ HistogramHead /\ ~FamilyAnchored

\* C19: a point is returned only if updateSampleInterval answered true in
\* the call; the gate is consulted at most once, as the last step and
\* never for a sample dropped before a point was built; it is called with
\* the head series' hash, the reset timestamp of the start time (0 where
\* there is none) and the head sample's t.
C19_GateLastAndDecisive ==
    Called =>
      /\ HasPoint => \E i \in IntervalCalls : calls[i].Res = "true"
      /\ Cardinality(IntervalCalls) <= 1
      /\ DroppedBeforePoint => IntervalCalls = {}
      /\ \A i \in IntervalCalls :
           /\ i = Len(calls)
           /\ calls[i].Ref = HeadEntry.hash
           /\ calls[i].RT = StartReset
           /\ calls[i].T = HeadSample.T
           /\ HasPoint =>
                ThePoint.Interval.StartTime =
                  IF CumulativeHead THEN <<getTimestamp(calls[i].RT)>> ELSE <<>>

\* The gate let the point of a histogram of several samples through; it was
\* asked with the reset timestamp of the family's _count.
C19_Witness ==
    /\ HistogramEmitted
    /\ Consumed >= 2
    /\ calls[Len(calls)].Op = "updateSampleInterval"
    /\ calls[Len(calls)].Res = "true"
    /\ calls[Len(calls)].RT = AnchorTime
    /\ calls[Len(calls)].T = HeadSample.T

\* The head is a Gauge, an Unknown-typed series or the quantile of a
\* Summary.
InstantHead ==
    /\ Called
    /\ HeadKnown
    /\ \/ HeadEntry.metadata.MetricType \in {MetricTypeGauge, MetricTypeUnknown}
       \/ /\ HeadEntry.metadata.MetricType = MetricTypeSummary
          /\ HeadEntry.suffix = ""

====
